---- MODULE Spec2Model ----
(***************************************************************************)
(* Model of calculate_grades.py: calculate_late_penalty,                   *)
(* process_assignment_category and calculate_grade.                        *)
(*                                                                         *)
(* Numbers.  Scores, rates, weights and thresholds are Python floats; the  *)
(* model computes with exact rationals [n, d] in lowest terms (d > 0), so  *)
(* equal values are equal records.  Rounding of binary floating point is   *)
(* not modelled.                                                           *)
(*                                                                         *)
(* Timestamps.  A timestamp value is None, the empty string, a string that *)
(* is no ISO-8601 timestamp, or an ISO-8601 string naming an instant (in   *)
(* seconds) with the UTC marker "Z" or the explicit offset "+00:00".       *)
(***************************************************************************)
EXTENDS Integers, Sequences, FiniteSets

VARIABLES
    grades,            \* argument of calculate_grade (line 94)
    policy,            \* argument of calculate_grade (line 94)
    pc,                \* position inside calculate_grade
    total_score,       \* line 100
    warning_messages,  \* line 101
    console,           \* what console.print has emitted so far, by section
    stderr,            \* what calculate_late_penalty printed to sys.stderr
    penalty_call,      \* the latest activation of calculate_late_penalty
    category_name,     \* parameter of the active process_assignment_category ("" if none)
    assignments,       \* local of process_assignment_category (line 54)
    idx,               \* position of the loop of line 55 (items consumed)
    stage_score,       \* project_score, quiz_score, homework_score, reflection_score
    tables,            \* the rows of the Table each category returned (83-89)
    letter_grade,      \* line 188
    error              \* the exception that left calculate_grade, if any

vars == <<grades, policy, pc, total_score, warning_messages, console, stderr,
          penalty_call, category_name, assignments, idx, stage_score, tables, letter_grade, error>>

----------------------------------------------------------------------------
(* Exact arithmetic *)

Abs(x) == IF x < 0 THEN -x ELSE x

Max(a, b) == IF a >= b THEN a ELSE b

RECURSIVE GCD(_, _)
GCD(a, b) == IF b = 0 THEN a ELSE GCD(b, a % b)

Rat(n, d) == LET g == GCD(Abs(n), d) IN [n |-> n \div g, d |-> d \div g]

Zero == Rat(0, 1)
One == Rat(1, 1)

RAdd(a, b) == Rat(a.n * b.d + b.n * a.d, a.d * b.d)
RSub(a, b) == Rat(a.n * b.d - b.n * a.d, a.d * b.d)
RMul(a, b) == Rat(a.n * b.n, a.d * b.d)
RMulInt(a, k) == Rat(a.n * k, a.d)
RDivInt(a, k) == Rat(a.n, a.d * k)
RLeq(a, b) == a.n * b.d <= b.n * a.d
RLess(a, b) == a.n * b.d < b.n * a.d
RMin(a, b) == IF RLeq(a, b) THEN a ELSE b

----------------------------------------------------------------------------
(* Timestamps *)

SecondsPerDay == 86400

NoneTs == [kind |-> "none", t |-> 0, zone |-> ""]
EmptyTs == [kind |-> "empty", t |-> 0, zone |-> ""]
MalformedTs == [kind |-> "malformed", t |-> 0, zone |-> ""]
Iso(t, zone) == [kind |-> "iso", t |-> t, zone |-> zone]

\* Python truthiness of a timestamp value: None and "" are falsy.
Truthy(ts) == ts.kind \notin {"none", "empty"}

\* str.replace("Z", "+00:00") on a timestamp string.
ReplaceZ(ts) == IF ts.kind = "iso" /\ ts.zone = "Z" THEN Iso(ts.t, "+00:00") ELSE ts

\* datetime.fromisoformat: the instant, or ValueError.  It is only ever applied
\* to ReplaceZ's result, which carries no "Z".
fromisoformat(ts) ==
    IF ts.kind = "iso" /\ ts.zone = "+00:00"
    THEN [raised |-> FALSE, t |-> ts.t]
    ELSE [raised |-> TRUE, t |-> 0]

\* timedelta.days of (submitted - due): timedelta normalises so that
\* 0 <= seconds < 86400, hence days is the floor.
TimedeltaDays(submitted, due) == (submitted - due) \div SecondsPerDay

\* Variants of calculate_late_penalty with one line changed, used to test the
\* properties: without the cap of line 39, and without the guard of line 29.
calculate_late_penalty_uncapped(submitted_at, due_date, rate, max_penalty) ==
    IF ~Truthy(submitted_at) \/ ~Truthy(due_date)
    THEN [raised |-> FALSE, warned |-> TRUE, days_late |-> 0, penalty |-> Zero]
    ELSE LET submitted == fromisoformat(ReplaceZ(submitted_at))
             due == fromisoformat(ReplaceZ(due_date))
         IN  IF submitted.raised \/ due.raised
             THEN [raised |-> TRUE, warned |-> FALSE, days_late |-> 0, penalty |-> Zero]
             ELSE LET days_late == Max(0, TimedeltaDays(submitted.t, due.t))
                  IN  [raised |-> FALSE, warned |-> FALSE,
                       days_late |-> days_late, penalty |-> RMulInt(rate, days_late)]

calculate_late_penalty_unguarded(submitted_at, due_date, rate, max_penalty) ==
    LET submitted == fromisoformat(ReplaceZ(submitted_at))
        due == fromisoformat(ReplaceZ(due_date))
    IN  IF submitted.raised \/ due.raised
        THEN [raised |-> TRUE, warned |-> FALSE, days_late |-> 0, penalty |-> Zero]
        ELSE LET days_late == Max(0, TimedeltaDays(submitted.t, due.t))
             IN  [raised |-> FALSE, warned |-> FALSE, days_late |-> days_late,
                  penalty |-> RMin(max_penalty, RMulInt(rate, days_late))]

\* calculate_late_penalty, lines 25-41.  raised: a ValueError left the call;
\* warned: the "Missing date" line was printed to stderr.
calculate_late_penalty(submitted_at, due_date, rate, max_penalty) ==
    IF ~Truthy(submitted_at) \/ ~Truthy(due_date)
    THEN [raised |-> FALSE, warned |-> TRUE, days_late |-> 0, penalty |-> Zero]
    ELSE LET submitted == fromisoformat(ReplaceZ(submitted_at))
             due == fromisoformat(ReplaceZ(due_date))
         IN  IF submitted.raised \/ due.raised
             THEN [raised |-> TRUE, warned |-> FALSE, days_late |-> 0, penalty |-> Zero]
             ELSE LET days_late == Max(0, TimedeltaDays(submitted.t, due.t))
                      penalty == RMin(max_penalty, RMulInt(rate, days_late))
                  IN  [raised |-> FALSE, warned |-> FALSE,
                       days_late |-> days_late, penalty |-> penalty]

----------------------------------------------------------------------------
(* process_assignment_category *)

CategorySet == {"quizzes", "homework", "reflections"}
Stages == {"project"} \cup CategorySet

AssignmentScore(name, original_score, adjusted_score, days_late) ==
    [name |-> name, original_score |-> original_score,
     adjusted_score |-> adjusted_score, days_late |-> days_late]

\* due_dates.get(name, ""), line 58 and line 112
DueGet(due_dates, name) == IF name \in DOMAIN due_dates THEN due_dates[name] ELSE EmptyTs

\* Variant of AdjustedScore: the penalty added instead of subtracted.
AdjustedScore_added(score, penalty) == RMul(score, RAdd(One, penalty))

\* assignment["score"] * (1 - penalty.penalty), line 62 (and 118-119)
AdjustedScore(score, penalty) == RMul(score, RSub(One, penalty))

\* Variant of InsertByAdjusted: equal keys end up in reverse input order.
InsertByAdjusted_unstable(sorted, x) ==
    SelectSeq(sorted, LAMBDA r : RLess(x.adjusted_score, r.adjusted_score))
        \o <<x>> \o
    SelectSeq(sorted, LAMBDA r : RLeq(r.adjusted_score, x.adjusted_score))

\* list.sort(key=adjusted_score, reverse=True), line 70: a stable sort, so
\* rows with equal keys keep their relative order.  Insertion of x behind
\* every row whose key is >= x's key.
InsertByAdjusted(sorted, x) ==
    SelectSeq(sorted, LAMBDA r : RLeq(x.adjusted_score, r.adjusted_score))
        \o <<x>> \o
    SelectSeq(sorted, LAMBDA r : RLess(r.adjusted_score, x.adjusted_score))

RECURSIVE SortByAdjusted(_)
SortByAdjusted(rows) ==
    IF rows = <<>> THEN <<>>
    ELSE InsertByAdjusted(SortByAdjusted(SubSeq(rows, 1, Len(rows) - 1)), rows[Len(rows)])

\* Variants of SliceOffEnd: assignments[drops:], and a slice that always
\* keeps one row.
SliceOffEnd_front(rows, drops) == SubSeq(rows, drops + 1, Len(rows))

SliceOffEnd_keep_one(rows, drops) == SubSeq(rows, 1, Max(1, Len(rows) - drops))

\* assignments[:-drops], line 71, for drops > 0
SliceOffEnd(rows, drops) == SubSeq(rows, 1, Max(0, Len(rows) - drops))

\* lines 69-71
DropLowest(rows, drops) ==
    IF drops > 0 THEN SliceOffEnd(SortByAdjusted(rows), drops) ELSE rows

\* sum(a.adjusted_score for a in assignments), line 73
RECURSIVE SumAdjusted(_)
SumAdjusted(rows) ==
    IF rows = <<>> THEN Zero
    ELSE RAdd(SumAdjusted(SubSeq(rows, 1, Len(rows) - 1)), rows[Len(rows)].adjusted_score)

\* lines 73-74, for a non-empty list
WeightedScore(rows, weight) == RMul(RDivInt(SumAdjusted(rows), Len(rows)), weight)

----------------------------------------------------------------------------
(* calculate_grade: letter grade, lines 188-195 *)

\* sorted(grade_scale.items(), key=lambda x: x[1], reverse=True): stable
InsertByMinScore(sorted, x) ==
    SelectSeq(sorted, LAMBDA e : RLeq(x.min_score, e.min_score))
        \o <<x>> \o
    SelectSeq(sorted, LAMBDA e : RLess(e.min_score, x.min_score))

RECURSIVE SortByMinScore(_)
SortByMinScore(items) ==
    IF items = <<>> THEN <<>>
    ELSE InsertByMinScore(SortByMinScore(SubSeq(items, 1, Len(items) - 1)), items[Len(items)])

\* the for loop of lines 190-195: the first entry with total >= min_score
RECURSIVE FirstQualifying(_, _)
FirstQualifying(items, total) ==
    IF items = <<>> THEN "F"
    ELSE IF RLeq(items[1].min_score, total) THEN items[1].grade
    ELSE FirstQualifying(Tail(items), total)

\* Variant of ResolveLetter: the scale scanned in the mapping's own order.
ResolveLetter_unsorted(grade_scale, total) ==
    IF grade_scale.present /\ grade_scale.items # <<>>
    THEN FirstQualifying(grade_scale.items, total)
    ELSE "F"

\* lines 188-195
ResolveLetter(grade_scale, total) ==
    IF grade_scale.present /\ grade_scale.items # <<>>
    THEN FirstQualifying(SortByMinScore(grade_scale.items), total)
    ELSE "F"

----------------------------------------------------------------------------
(* Inputs.  The grades and policy documents have the shapes the program    *)
(* reads: every submission has a score and a submitted_at value (possibly  *)
(* None or ""), policy["due_dates"] has an entry for each of the three     *)
(* assignment categories, and late_penalty has rate and max_penalty.       *)
(* weights entries, due_dates["project"], quiz_drops and grade_scale are   *)
(* read with .get and may be missing.                                      *)

MaxAssignments == 3   \* assignments per category in the drop-lowest runs
MaxDrops == 3         \* largest quiz_drops in the drop-lowest runs

Due0 == 10 * SecondsPerDay

Names == <<"A1", "A2", "A3", "A4", "A5", "A6">>

Absent == [present |-> FALSE, value |-> Zero]
Present(v) == [present |-> TRUE, value |-> v]

NoProject == [present |-> FALSE, score |-> Zero, submitted_at |-> NoneTs]
Project(score, submitted_at) ==
    [present |-> TRUE, score |-> score, submitted_at |-> submitted_at]

NoCategory == [present |-> FALSE, items |-> <<>>]
Category(items) == [present |-> TRUE, items |-> items]

Item(i, score, submitted_at) ==
    [name |-> Names[i], score |-> score, submitted_at |-> submitted_at]

NoScale == [present |-> FALSE, items |-> <<>>]
Scale(items) == [present |-> TRUE, items |-> items]
Entry(grade, min_score) == [grade |-> grade, min_score |-> Rat(min_score, 1)]
StandardScale == Scale(<<Entry("A", 90), Entry("B", 80), Entry("C", 70), Entry("F", 0)>>)

NoDrops == [present |-> FALSE, value |-> 0]
Drops(k) == [present |-> TRUE, value |-> k]

NoDues == [n \in {} |-> EmptyTs]
AllDue(n) == [name \in {Names[i] : i \in 1..n} |-> Iso(Due0, "Z")]

Grades(project, quizzes, homework, reflections) ==
    [kind |-> "ok",
     scores |-> [project |-> project, quizzes |-> quizzes,
                 homework |-> homework, reflections |-> reflections]]

\* grades is None or empty, or has no "scores" key
InvalidGrades(kind) ==
    [kind |-> kind,
     scores |-> [project |-> NoProject, quizzes |-> NoCategory,
                 homework |-> NoCategory, reflections |-> NoCategory]]

Policy(weights, due_dates, rate, max_penalty, quiz_drops, grade_scale) ==
    [weights |-> weights, due_dates |-> due_dates,
     late_penalty |-> [rate |-> rate, max_penalty |-> max_penalty],
     quiz_drops |-> quiz_drops, grade_scale |-> grade_scale]

CategoryDues(q, h, r) == [quizzes |-> q, homework |-> h, reflections |-> r]
WithProjectDue(dues, ts) ==
    [k \in DOMAIN dues \cup {"project"} |-> IF k = "project" THEN ts ELSE dues[k]]

Weights(p, q, h, r) == [project |-> p, quizzes |-> q, homework |-> h, reflections |-> r]

\* (1) one project, every combination of timestamps, rate and cap
ProjectScores == {Rat(-10, 1), Zero, Rat(85, 1), Rat(100, 1)}
SubmittedOptions ==
    {NoneTs, EmptyTs, MalformedTs,
     Iso(Due0 - SecondsPerDay, "Z"), Iso(Due0 - 1, "Z"), Iso(Due0, "+00:00"),
     Iso(Due0 + SecondsPerDay - 1, "Z"), Iso(Due0 + 3 * SecondsPerDay, "Z"),
     Iso(Due0 + 10 * SecondsPerDay, "+00:00")}
ProjectDueOptions ==
    {CategoryDues(NoDues, NoDues, NoDues)} \cup
    {WithProjectDue(CategoryDues(NoDues, NoDues, NoDues), ts) :
        ts \in {NoneTs, EmptyTs, MalformedTs, Iso(Due0, "Z"), Iso(Due0, "+00:00")}}
Rates == {Zero, Rat(1, 10), One}
MaxPenalties == {Zero, Rat(1, 2), One}

PenaltyInputs ==
    \E s \in ProjectScores, sub \in SubmittedOptions, dues \in ProjectDueOptions,
       rate \in Rates, cap \in MaxPenalties :
        /\ grades = Grades(Project(s, sub), NoCategory, NoCategory, NoCategory)
        /\ policy = Policy(Weights(Present(Rat(3, 10)), Absent, Absent, Absent),
                           dues, rate, cap, NoDrops, StandardScale)

\* (2) one quiz category of 1..MaxAssignments assignments, quiz_drops 0..MaxDrops
QuizOptions ==
    {[score |-> s, submitted_at |-> sub] :
        s \in {Rat(-10, 1), Rat(40, 1), Rat(90, 1), Rat(100, 1)},
        sub \in {Iso(Due0, "Z"), Iso(Due0 + SecondsPerDay, "Z")}}
QuizItems(n, f) == [i \in 1..n |-> Item(i, f[i].score, f[i].submitted_at)]

DropInputs ==
    \E n \in 1..MaxAssignments, k \in 0..MaxDrops :
        \E f \in [1..n -> QuizOptions] :
            /\ grades = Grades(NoProject, Category(QuizItems(n, f)), NoCategory, NoCategory)
            /\ policy = Policy(Weights(Absent, Present(Rat(1, 5)), Absent, Absent),
                               CategoryDues(AllDue(n), NoDues, NoDues),
                               Rat(1, 10), Rat(1, 2), Drops(k), StandardScale)

\* (3) a total score against every grade scale over three letters
Letters == {"A", "B", "F"}
Thresholds == {0, 80, 90}
ScaleEntries == {Entry(g, m) : g \in Letters, m \in Thresholds}
ScaleItems ==
    UNION {{f \in [1..n -> ScaleEntries] :
                \A i, j \in 1..n : i # j => f[i].grade # f[j].grade} :
           n \in 0..Cardinality(Letters)}
Totals == {Rat(-10, 1), Zero, Rat(75, 1), Rat(80, 1), Rat(85, 1), Rat(90, 1), Rat(100, 1)}

ScaleInputs ==
    \E t \in Totals, scale \in {NoScale} \cup {Scale(items) : items \in ScaleItems} :
        /\ grades = Grades(Project(t, Iso(Due0, "Z")), NoCategory, NoCategory, NoCategory)
        /\ policy = Policy(Weights(Present(One), Absent, Absent, Absent),
                           WithProjectDue(CategoryDues(NoDues, NoDues, NoDues), Iso(Due0, "Z")),
                           Rat(1, 10), Rat(1, 2), NoDrops, scale)

\* (4) all four stages, each with its data missing, empty, complete, with a
\*     missing date or with a malformed timestamp, and its weight missing, 0 or set
OnTime == Iso(Due0, "Z")
Late3 == Iso(Due0 + 3 * SecondsPerDay, "Z")

ProjectCases ==
    {[data |-> NoProject, weight |-> Present(Rat(3, 10)), due |-> OnTime],
     [data |-> Project(Rat(90, 1), Late3), weight |-> Absent, due |-> OnTime],
     [data |-> Project(Rat(90, 1), Late3), weight |-> Present(Zero), due |-> OnTime],
     [data |-> Project(Rat(90, 1), Late3), weight |-> Present(Rat(3, 10)), due |-> OnTime],
     [data |-> Project(Rat(90, 1), NoneTs), weight |-> Present(Rat(3, 10)), due |-> OnTime],
     [data |-> Project(Rat(90, 1), Late3), weight |-> Present(Rat(3, 10)), due |-> MalformedTs]}

TwoItems(sub1, sub2) == <<Item(1, Rat(80, 1), sub1), Item(2, Rat(100, 1), sub2)>>

CategoryCases ==
    {[data |-> NoCategory, weight |-> Present(Rat(1, 5)), dues |-> AllDue(2)],
     [data |-> Category(<<>>), weight |-> Present(Rat(1, 5)), dues |-> AllDue(2)],
     [data |-> Category(TwoItems(OnTime, Late3)), weight |-> Absent, dues |-> AllDue(2)],
     [data |-> Category(TwoItems(OnTime, Late3)), weight |-> Present(Zero), dues |-> AllDue(2)],
     [data |-> Category(TwoItems(OnTime, Late3)), weight |-> Present(Rat(1, 5)), dues |-> AllDue(2)],
     [data |-> Category(TwoItems(EmptyTs, Late3)), weight |-> Present(Rat(1, 5)), dues |-> AllDue(1)],
     [data |-> Category(TwoItems(OnTime, MalformedTs)), weight |-> Present(Rat(1, 5)), dues |-> AllDue(2)]}

PipelineInputs ==
    \E p \in ProjectCases, q \in CategoryCases, h \in CategoryCases,
       r \in CategoryCases, drops \in {NoDrops, Drops(2)} :
        /\ grades = Grades(p.data, q.data, h.data, r.data)
        /\ policy = Policy(Weights(p.weight, q.weight, h.weight, r.weight),
                           WithProjectDue(CategoryDues(q.dues, h.dues, r.dues), p.due),
                           Rat(1, 10), Rat(1, 2), drops, StandardScale)

\* (5) a grades document without scores
InvalidInputs ==
    \E kind \in {"none", "no_scores"} :
        /\ grades = InvalidGrades(kind)
        /\ policy = Policy(Weights(Absent, Absent, Absent, Absent),
                           CategoryDues(NoDues, NoDues, NoDues),
                           Rat(1, 10), Rat(1, 2), NoDrops, StandardScale)

Inputs == PenaltyInputs \/ DropInputs \/ ScaleInputs \/ PipelineInputs \/ InvalidInputs

----------------------------------------------------------------------------
(* calculate_grade *)

NoCall ==
    [active |-> FALSE, submitted_at |-> NoneTs, due_date |-> NoneTs,
     rate |-> Zero, max_penalty |-> Zero,
     result |-> [raised |-> FALSE, warned |-> FALSE, days_late |-> 0, penalty |-> Zero]]

Call(submitted_at, due_date, rate, max_penalty, result) ==
    [active |-> TRUE, submitted_at |-> submitted_at, due_date |-> due_date,
     rate |-> rate, max_penalty |-> max_penalty, result |-> result]

Unset == [set |-> FALSE, value |-> Zero]
NoTable == [set |-> FALSE, rows |-> <<>>]

Init ==
    /\ Inputs
    /\ pc = "start"
    /\ total_score = Zero
    /\ warning_messages = <<>>
    /\ console = <<>>
    /\ stderr = <<>>
    /\ penalty_call = NoCall
    /\ category_name = ""
    /\ assignments = <<>>
    /\ idx = 0
    /\ stage_score = [s \in Stages |-> Unset]
    /\ tables = [c \in CategorySet |-> NoTable]
    /\ letter_grade = ""
    /\ error = ""

Rate == policy.late_penalty.rate
MaxPenalty == policy.late_penalty.max_penalty

\* grades["scores"].get(stage) is truthy: a non-empty dict
ScoresTruthy(stage) ==
    IF stage = "project"
    THEN grades.scores.project.present
    ELSE grades.scores[stage].present /\ grades.scores[stage].items # <<>>

\* policy["weights"].get(stage) is truthy: a number other than 0
WeightTruthy(stage) ==
    policy.weights[stage].present /\ policy.weights[stage].value # Zero

\* the conditions of lines 109, 133, 152 and 170
StageRuns(stage) == ScoresTruthy(stage) /\ WeightTruthy(stage)

MissingWarning(stage) ==
    CASE stage = "project" -> "Missing project data"
      [] stage = "quizzes" -> "Missing quizzes data"
      [] stage = "homework" -> "Missing homework data"
      [] stage = "reflections" -> "Missing reflections data"

NextStage(stage) ==
    CASE stage = "project" -> "quizzes"
      [] stage = "quizzes" -> "homework"
      [] stage = "homework" -> "reflections"
      [] stage = "reflections" -> "letter"

\* the drops argument: policy.get("quiz_drops", 0) for quizzes (line 141),
\* the default 0 for homework and reflections (line 51)
DropsFor(category) ==
    IF category = "quizzes" /\ policy.quiz_drops.present
    THEN policy.quiz_drops.value
    ELSE 0

MissingDateLine == "Warning: Missing date"

\* Variant of CalculateGradeEntry: the header printed before the validation.
CalculateGradeEntry_header_first ==
    /\ pc = "start"
    /\ console' = Append(console, "header")
    /\ IF grades.kind # "ok"
       THEN /\ pc' = "failed"
            /\ error' = "ValueError: Invalid grades data"
            /\ UNCHANGED <<total_score, warning_messages>>
       ELSE /\ total_score' = Zero
            /\ warning_messages' = <<>>
            /\ pc' = "project"
            /\ UNCHANGED error
    /\ UNCHANGED <<grades, policy, stderr, penalty_call, category_name, assignments,
                   idx, stage_score, tables, letter_grade>>

\* lines 96-106
CalculateGradeEntry ==
    /\ pc = "start"
    /\ IF grades.kind # "ok"
       THEN /\ pc' = "failed"
            /\ error' = "ValueError: Invalid grades data"
            /\ UNCHANGED <<total_score, warning_messages, console>>
       ELSE /\ total_score' = Zero
            /\ warning_messages' = <<>>
            /\ console' = Append(console, "header")
            /\ pc' = "project"
            /\ UNCHANGED error
    /\ UNCHANGED <<grades, policy, stderr, penalty_call, category_name, assignments,
                   idx, stage_score, tables, letter_grade>>

\* lines 109-130
ProjectStage ==
    /\ pc = "project"
    /\ IF StageRuns("project")
       THEN LET p == grades.scores.project
                due == DueGet(policy.due_dates, "project")
                res == calculate_late_penalty(p.submitted_at, due, Rate, MaxPenalty)
                project_score ==
                    RMul(AdjustedScore(p.score, res.penalty), policy.weights.project.value)
            IN  /\ penalty_call' = Call(p.submitted_at, due, Rate, MaxPenalty, res)
                /\ stderr' = IF res.warned THEN Append(stderr, MissingDateLine) ELSE stderr
                /\ IF res.raised
                   THEN /\ pc' = "failed"
                        /\ error' = "ValueError: Invalid isoformat string"
                        /\ UNCHANGED <<total_score, console, stage_score>>
                   ELSE /\ total_score' = RAdd(total_score, project_score)
                        /\ stage_score' =
                               [stage_score EXCEPT !["project"] =
                                    [set |-> TRUE, value |-> project_score]]
                        /\ console' = Append(console, "project")
                        /\ pc' = "quizzes"
                        /\ UNCHANGED error
                /\ UNCHANGED warning_messages
       ELSE /\ warning_messages' = Append(warning_messages, MissingWarning("project"))
            /\ pc' = "quizzes"
            /\ UNCHANGED <<total_score, console, stderr, penalty_call, stage_score, error>>
    /\ UNCHANGED <<grades, policy, category_name, assignments, idx, tables, letter_grade>>

\* lines 133, 152, 170 with their else branches, and the call's line 54
EnterCategory(c) ==
    /\ pc = c
    /\ IF StageRuns(c)
       THEN /\ category_name' = c
            /\ assignments' = <<>>
            /\ idx' = 0
            /\ pc' = "process"
            /\ UNCHANGED warning_messages
       ELSE /\ warning_messages' = Append(warning_messages, MissingWarning(c))
            /\ pc' = NextStage(c)
            /\ UNCHANGED <<category_name, assignments, idx>>
    /\ UNCHANGED <<grades, policy, total_score, console, stderr, penalty_call,
                   stage_score, tables, letter_grade, error>>

\* one iteration of the loop of lines 55-67
ProcessAssignment ==
    /\ pc = "process"
    /\ idx < Len(grades.scores[category_name].items)
    /\ LET assignment == grades.scores[category_name].items[idx + 1]
           due == DueGet(policy.due_dates[category_name], assignment.name)
           res == calculate_late_penalty(assignment.submitted_at, due, Rate, MaxPenalty)
           adjusted_score == AdjustedScore(assignment.score, res.penalty)
       IN  /\ penalty_call' = Call(assignment.submitted_at, due, Rate, MaxPenalty, res)
           /\ stderr' = IF res.warned THEN Append(stderr, MissingDateLine) ELSE stderr
           /\ IF res.raised
              THEN /\ pc' = "failed"
                   /\ error' = "ValueError: Invalid isoformat string"
                   /\ UNCHANGED <<assignments, idx>>
              ELSE /\ assignments' =
                          Append(assignments,
                                 AssignmentScore(assignment.name, assignment.score,
                                                 adjusted_score, res.days_late))
                   /\ idx' = idx + 1
                   /\ UNCHANGED <<pc, error>>
    /\ UNCHANGED <<grades, policy, total_score, warning_messages, console, category_name,
                   stage_score, tables, letter_grade>>

\* lines 69-91 and the caller's lines 143-147, 161-165, 179-183
FinishCategory ==
    /\ pc = "process"
    /\ idx = Len(grades.scores[category_name].items)
    /\ LET kept == DropLowest(assignments, DropsFor(category_name))
           weighted_score == WeightedScore(kept, policy.weights[category_name].value)
       IN  /\ assignments' = kept
           /\ IF Len(kept) = 0
              THEN /\ pc' = "failed"
                   /\ error' = "ZeroDivisionError: division by zero"
                   /\ UNCHANGED <<total_score, console, category_name, stage_score, tables>>
              ELSE /\ tables' = [tables EXCEPT ![category_name] =
                                     [set |-> TRUE, rows |-> kept]]
                   /\ stage_score' = [stage_score EXCEPT ![category_name] =
                                          [set |-> TRUE, value |-> weighted_score]]
                   /\ total_score' = RAdd(total_score, weighted_score)
                   /\ console' = Append(console, category_name)
                   /\ category_name' = ""
                   /\ pc' = NextStage(category_name)
                   /\ UNCHANGED error
    /\ UNCHANGED <<grades, policy, warning_messages, stderr, penalty_call, idx, letter_grade>>

\* lines 188-195
ResolveLetterGrade ==
    /\ pc = "letter"
    /\ letter_grade' = ResolveLetter(policy.grade_scale, total_score)
    /\ pc' = "report"
    /\ UNCHANGED <<grades, policy, total_score, warning_messages, console, stderr,
                   penalty_call, category_name, assignments, idx, stage_score, tables, error>>

\* Variant of PrintSummary: the warnings section left out.
PrintSummary_without_warnings ==
    /\ pc = "report"
    /\ console' = console \o <<"summary", "policy">>
    /\ pc' = "done"
    /\ UNCHANGED <<grades, policy, total_score, warning_messages, stderr, penalty_call,
                   category_name, assignments, idx, stage_score, tables, letter_grade, error>>

\* lines 198-216
PrintSummary ==
    /\ pc = "report"
    /\ console' = console \o <<"summary", "policy">> \o
                      (IF warning_messages # <<>> THEN <<"warnings">> ELSE <<>>)
    /\ pc' = "done"
    /\ UNCHANGED <<grades, policy, total_score, warning_messages, stderr, penalty_call,
                   category_name, assignments, idx, stage_score, tables, letter_grade, error>>

Next ==
    \/ CalculateGradeEntry
    \/ ProjectStage
    \/ \E c \in CategorySet : EnterCategory(c)
    \/ ProcessAssignment
    \/ FinishCategory
    \/ ResolveLetterGrade
    \/ PrintSummary

Spec == Init /\ [][Next]_vars

----------------------------------------------------------------------------
(* Properties *)

InUnit(r) == RLeq(Zero, r) /\ RLeq(r, One)

MissingDate(submitted_at, due_date) ==
    submitted_at.kind \in {"none", "empty"} \/ due_date.kind \in {"none", "empty"}

ItemsOf(c) == grades.scores[c].items

InputIndex(c, name) == CHOOSE i \in 1..Len(ItemsOf(c)) : ItemsOf(c)[i].name = name

DueOf(c, name) ==
    IF name \in DOMAIN policy.due_dates[c] THEN policy.due_dates[c][name] ELSE EmptyTs

ItemMissingDate(c, i) == MissingDate(ItemsOf(c)[i].submitted_at, DueOf(c, ItemsOf(c)[i].name))

ProjectDue ==
    IF "project" \in DOMAIN policy.due_dates THEN policy.due_dates["project"] ELSE EmptyTs

ProjectMissingDate == MissingDate(grades.scores.project.submitted_at, ProjectDue)

CountIn(seq, x) == Cardinality({i \in 1..Len(seq) : seq[i] = x})

\* C1: a call of calculate_late_penalty with both timestamps present and
\* parseable and rate, max_penalty in [0,1] returns days_late = max(0, floor of
\* the elapsed whole days) and penalty = min(max_penalty, rate * days_late);
\* the penalty lies in [0, max_penalty], and a submission less than one full
\* day after the due date (in particular one at or before it) gets 0 and 0.
C1_PenaltyFormula ==
    (/\ penalty_call.active
     /\ penalty_call.submitted_at.kind = "iso"
     /\ penalty_call.due_date.kind = "iso"
     /\ InUnit(penalty_call.rate)
     /\ InUnit(penalty_call.max_penalty))
    => LET diff == penalty_call.submitted_at.t - penalty_call.due_date.t
           r == penalty_call.result
           uncapped == RMulInt(penalty_call.rate, r.days_late)
       IN  /\ ~r.raised
           /\ r.days_late >= 0
           /\ diff < SecondsPerDay => (r.days_late = 0 /\ r.penalty = Zero)
           /\ diff >= SecondsPerDay =>
                  /\ r.days_late * SecondsPerDay <= diff
                  /\ diff < (r.days_late + 1) * SecondsPerDay
           /\ RLeq(Zero, r.penalty)
           /\ RLeq(r.penalty, penalty_call.max_penalty)
           /\ RLeq(r.penalty, uncapped)
           /\ r.penalty \in {uncapped, penalty_call.max_penalty}

\* ten days late at 10% a day with a cap of 50%: the cap is what is returned
C1_Witness ==
    /\ penalty_call.active
    /\ penalty_call.submitted_at.kind = "iso"
    /\ penalty_call.due_date.kind = "iso"
    /\ penalty_call.rate = Rat(1, 10)
    /\ penalty_call.max_penalty = Rat(1, 2)
    /\ penalty_call.result.days_late = 10
    /\ penalty_call.result.penalty = Rat(1, 2)

\* the row the program computes for input item i of category c
ScoredItem(c, i) ==
    LET item == ItemsOf(c)[i]
        res == calculate_late_penalty(item.submitted_at, DueOf(c, item.name), Rate, MaxPenalty)
    IN  AssignmentScore(item.name, item.score, AdjustedScore(item.score, res.penalty),
                        res.days_late)

Survives(c, i) == \E j \in 1..Len(tables[c].rows) : tables[c].rows[j].name = ItemsOf(c)[i].name

\* C2: a category of n assignments processed with drop count k, 0 <= k < n,
\* keeps exactly n - k assignments, every kept adjusted score is >= every
\* dropped one, and the weighted score is (sum of kept adjusted scores /
\* (n - k)) * weight.
C2_DropLowest ==
    \A c \in CategorySet :
        tables[c].set =>
            LET n == Len(ItemsOf(c))
                k == DropsFor(c)
                rows == tables[c].rows
            IN  /\ 0 <= k /\ k < n
                /\ Len(rows) = n - k
                /\ \A a, b \in 1..Len(rows) : a # b => rows[a].name # rows[b].name
                /\ \A j \in 1..Len(rows) :
                       \E i \in 1..n : rows[j] = ScoredItem(c, i)
                /\ \A i, d \in 1..n :
                       (Survives(c, i) /\ ~Survives(c, d)) =>
                           RLeq(ScoredItem(c, d).adjusted_score,
                                ScoredItem(c, i).adjusted_score)
                /\ stage_score[c].set
                /\ RMulInt(stage_score[c].value, n - k) =
                       RMul(SumAdjusted(rows), policy.weights[c].value)

\* quizzes 90, 40, 100 on time, one drop, weight 0.2: 40 is dropped, 19 results
C2_Witness ==
    /\ tables["quizzes"].set
    /\ Len(ItemsOf("quizzes")) = 3
    /\ DropsFor("quizzes") = 1
    /\ \A i \in 1..3 : ItemsOf("quizzes")[i].score = <<Rat(90, 1), Rat(40, 1), Rat(100, 1)>>[i]
    /\ \A i \in 1..3 : ItemsOf("quizzes")[i].submitted_at = Iso(Due0, "Z")
    /\ ~Survives("quizzes", 2)
    /\ stage_score["quizzes"].value = Rat(19, 1)

\* C3: the letter grade is the letter with the highest threshold that is
\* <= total_score; it is "F" when no threshold is <= total_score or the
\* grade scale is absent or empty.
C3_LetterGrade ==
    pc \in {"report", "done"} =>
        LET items == policy.grade_scale.items
            qualifying == {i \in 1..Len(items) : RLeq(items[i].min_score, total_score)}
        IN  IF ~policy.grade_scale.present \/ qualifying = {}
            THEN letter_grade = "F"
            ELSE \E i \in qualifying :
                     /\ letter_grade = items[i].grade
                     /\ \A j \in qualifying : RLeq(items[j].min_score, items[i].min_score)

\* a scale listed in ascending order, total 85: the 80 threshold decides
C3_Witness ==
    /\ pc = "done"
    /\ total_score = Rat(85, 1)
    /\ policy.grade_scale.present
    /\ policy.grade_scale.items = <<Entry("F", 0), Entry("B", 80), Entry("A", 90)>>
    /\ letter_grade = "B"

\* the stage's data is absent: no scores for it (none, or an empty mapping)
\* or no weight for it
StageAbsent(stage) ==
    \/ IF stage = "project"
       THEN ~grades.scores.project.present
       ELSE ~grades.scores[stage].present \/ grades.scores[stage].items = <<>>
    \/ ~policy.weights[stage].present

Contribution(stage) == IF stage_score[stage].set THEN stage_score[stage].value ELSE Zero

SumOfContributions ==
    RAdd(RAdd(RAdd(Contribution("project"), Contribution("quizzes")),
              Contribution("homework")), Contribution("reflections"))

WarningIf(cond, stage) == IF cond THEN <<MissingWarning(stage)>> ELSE <<>>

\* C4: each stage whose scores or weight is absent adds 0 and appends exactly
\* one "Missing <category> data" warning, every other stage appends no
\* warning and adds its contribution; total_score is the sum of the executed
\* stages' contributions and the warnings are in stage order.
C4_StageAccounting ==
    pc = "done" =>
        /\ \A stage \in Stages :
               IF StageAbsent(stage)
               THEN /\ ~stage_score[stage].set
                    /\ CountIn(warning_messages, MissingWarning(stage)) = 1
               ELSE /\ stage_score[stage].set
                    /\ CountIn(warning_messages, MissingWarning(stage)) = 0
        /\ total_score = SumOfContributions
        /\ warning_messages =
               WarningIf(StageAbsent("project"), "project")
                   \o WarningIf(StageAbsent("quizzes"), "quizzes")
                   \o WarningIf(StageAbsent("homework"), "homework")
                   \o WarningIf(StageAbsent("reflections"), "reflections")

\* the rows computed so far and the rows of the finished tables, by category
RowsOf(c) ==
    IF tables[c].set THEN tables[c].rows
    ELSE IF pc \in {"process", "failed"} /\ category_name = c THEN assignments
    ELSE <<>>

\* a failure has a cause other than a missing date
HardCause ==
    \/ grades.kind # "ok" /\ error = "ValueError: Invalid grades data"
    \/ /\ error = "ValueError: Invalid isoformat string"
       /\ penalty_call.active
       /\ ~MissingDate(penalty_call.submitted_at, penalty_call.due_date)
       /\ "malformed" \in {penalty_call.submitted_at.kind, penalty_call.due_date.kind}
    \/ /\ error = "ZeroDivisionError: division by zero"
       /\ category_name \in CategorySet
       /\ DropsFor(category_name) >= Len(ItemsOf(category_name))

\* C5: when an assignment's submitted_at or its due date is absent or empty
\* (a due-date lookup without an entry included), the penalty calculation
\* returns days_late = 0 and penalty = 0, the adjusted score is the original
\* score, and the computation goes on: it fails only for another cause and a
\* finished run has a final score and a letter grade.
C5_MissingDateDegrades ==
    /\ (penalty_call.active /\ MissingDate(penalty_call.submitted_at, penalty_call.due_date))
           => /\ ~penalty_call.result.raised
              /\ penalty_call.result.days_late = 0
              /\ penalty_call.result.penalty = Zero
    /\ \A c \in CategorySet : \A j \in 1..Len(RowsOf(c)) :
           LET row == RowsOf(c)[j]
           IN  ItemMissingDate(c, InputIndex(c, row.name)) =>
                   /\ row.days_late = 0
                   /\ row.adjusted_score = row.original_score
                   /\ row.original_score = ItemsOf(c)[InputIndex(c, row.name)].score
    /\ (stage_score["project"].set /\ ProjectMissingDate) =>
           stage_score["project"].value =
               RMul(grades.scores.project.score, policy.weights["project"].value)
    /\ pc = "failed" => HardCause
    /\ pc = "done" => (letter_grade # "" /\ total_score = SumOfContributions)

\* a finished run that met a missing submission date and a missing due date
C5_Witness ==
    /\ pc = "done"
    /\ letter_grade # ""
    /\ Len(stderr) >= 2
    /\ \E c \in CategorySet : \E j \in 1..Len(tables[c].rows) :
           /\ ItemMissingDate(c, InputIndex(c, tables[c].rows[j].name))
           /\ tables[c].rows[j].name \notin DOMAIN policy.due_dates[c]
           /\ ItemsOf(c)[InputIndex(c, tables[c].rows[j].name)].submitted_at.kind = "iso"

Section(stage) == IF stage_score[stage].set THEN <<stage>> ELSE <<>>

SectionsOfExecutedStages ==
    Section("project") \o Section("quizzes") \o Section("homework") \o Section("reflections")

\* C6 as claimed: a run that ends in a hard failure has emitted no part of
\* the report before the failure.
C6_NothingEmittedBeforeFailure == pc = "failed" => console = <<>>

\* C6 as amended: a hard failure ends the computation before the letter
\* grade is resolved and before the summary is printed; the failure for a
\* missing scores section precedes all output, while a timestamp that fails
\* to parse or an empty category fails after the header and the sections of
\* the stages executed before it were printed.
C6_FailureAfterPartialReport ==
    pc = "failed" =>
        /\ letter_grade = ""
        /\ CountIn(console, "summary") = 0
        /\ IF error = "ValueError: Invalid grades data"
           THEN console = <<>>
           ELSE console = <<"header">> \o SectionsOfExecutedStages

\* a malformed timestamp met after the header and two stage sections
C6_Witness ==
    /\ pc = "failed"
    /\ error = "ValueError: Invalid isoformat string"
    /\ Len(console) >= 3

\* C7: process_assignment_category fails, and returns no weighted score,
\* whenever no assignment remains after dropping: n >= 1 and k >= n.
C7_EmptyCategoryFails ==
    \A c \in CategorySet :
        (/\ grades.kind = "ok"
         /\ Len(ItemsOf(c)) >= 1
         /\ DropsFor(c) >= Len(ItemsOf(c)))
        => /\ ~stage_score[c].set
           /\ ~tables[c].set
           /\ (category_name = c /\ pc \notin {"process", c}) =>
                  (pc = "failed" /\ error # "")
           /\ (category_name = c /\ pc = "failed" /\ idx = Len(ItemsOf(c))) =>
                  (error = "ZeroDivisionError: division by zero" /\ assignments = <<>>)

\* two quizzes, two drops: the division by the empty list's length fails
C7_Witness ==
    /\ pc = "failed"
    /\ category_name = "quizzes"
    /\ Len(ItemsOf("quizzes")) = 2
    /\ DropsFor("quizzes") = 2
    /\ idx = 2
    /\ error = "ZeroDivisionError: division by zero"

MissingDatesMet(stage) ==
    IF ~stage_score[stage].set THEN 0
    ELSE IF stage = "project" THEN (IF ProjectMissingDate THEN 1 ELSE 0)
    ELSE Cardinality({i \in 1..Len(ItemsOf(stage)) : ItemMissingDate(stage, i)})

AllMissingDatesMet ==
    MissingDatesMet("project") + MissingDatesMet("quizzes")
        + MissingDatesMet("homework") + MissingDatesMet("reflections")

SkippedStages == Cardinality({stage \in Stages : ~stage_score[stage].set})

\* C8 as claimed: every degraded condition met in a run (a missing timestamp,
\* a category without scores or weight) is recorded in the warnings list
\* surfaced at the end of the report.
C8_AllDegradedInWarningsList ==
    pc = "done" => Len(warning_messages) = SkippedStages + AllMissingDatesMet

\* C8 as amended: every skipped stage is recorded, in stage order, in the
\* warnings list that is printed at the end of the report; a missing
\* timestamp is reported on stderr by calculate_late_penalty when it is met
\* and is not recorded in the warnings list; neither interrupts the run.
C8_WarningsListAndStderr ==
    /\ pc = "done" =>
           /\ warning_messages =
                  WarningIf(~stage_score["project"].set, "project")
                      \o WarningIf(~stage_score["quizzes"].set, "quizzes")
                      \o WarningIf(~stage_score["homework"].set, "homework")
                      \o WarningIf(~stage_score["reflections"].set, "reflections")
           /\ (warning_messages # <<>>) <=> (console[Len(console)] = "warnings")
           /\ Len(stderr) = AllMissingDatesMet
           /\ \A i \in 1..Len(stderr) : stderr[i] = MissingDateLine
    /\ CountIn(warning_messages, MissingDateLine) = 0
    /\ pc = "failed" => HardCause

\* a finished run with a skipped stage and a missing date
C8_Witness ==
    /\ pc = "done"
    /\ Len(warning_messages) >= 1
    /\ Len(stderr) >= 1
    /\ console[Len(console)] = "warnings"

ProjectBase == RMul(grades.scores.project.score, policy.weights["project"].value)

\* C9 as claimed: every adjusted score is original_score * (1 - penalty) and
\* is <= the original score, for every input score.
C9_AdjustedNeverAbove ==
    /\ \A c \in CategorySet : \A j \in 1..Len(RowsOf(c)) :
           RLeq(RowsOf(c)[j].adjusted_score, RowsOf(c)[j].original_score)
    /\ stage_score["project"].set => RLeq(stage_score["project"].value, ProjectBase)

\* C9 as amended: every adjusted score is original_score * (1 - penalty); it
\* is <= the original score whenever the original score is >= 0 (the penalty
\* being >= 0).
C9_AdjustedFormula ==
    /\ (pc = "process" /\ idx >= 1) =>
           LET row == assignments[idx]
           IN  /\ row.original_score = ItemsOf(category_name)[idx].score
               /\ row.adjusted_score =
                      RSub(row.original_score,
                           RMul(row.original_score, penalty_call.result.penalty))
    /\ (pc = "quizzes" /\ stage_score["project"].set) =>
           stage_score["project"].value =
               RSub(ProjectBase, RMul(ProjectBase, penalty_call.result.penalty))
    /\ \A c \in CategorySet : \A j \in 1..Len(RowsOf(c)) :
           RLeq(Zero, RowsOf(c)[j].original_score) =>
               RLeq(RowsOf(c)[j].adjusted_score, RowsOf(c)[j].original_score)
    /\ (stage_score["project"].set /\ RLeq(Zero, grades.scores.project.score)) =>
           RLeq(stage_score["project"].value, ProjectBase)

\* a late assignment with a positive score, strictly below its original
C9_Witness ==
    /\ pc = "process"
    /\ idx >= 1
    /\ RLess(Zero, penalty_call.result.penalty)
    /\ RLess(assignments[idx].adjusted_score, assignments[idx].original_score)

\* C10: with k > 0 the rows are in descending order of adjusted score and
\* rows with equal adjusted scores are in the input mapping's order, so
\* among assignments tied at the drop boundary the later ones are dropped.
C10_StableTieBreak ==
    \A c \in CategorySet :
        (tables[c].set /\ DropsFor(c) > 0) =>
            LET rows == tables[c].rows
                n == Len(ItemsOf(c))
            IN  /\ \A a, b \in 1..Len(rows) :
                       a < b =>
                           \/ RLess(rows[b].adjusted_score, rows[a].adjusted_score)
                           \/ /\ rows[a].adjusted_score = rows[b].adjusted_score
                              /\ InputIndex(c, rows[a].name) < InputIndex(c, rows[b].name)
                /\ \A i, d \in 1..n :
                       (/\ Survives(c, i)
                        /\ ~Survives(c, d)
                        /\ ScoredItem(c, i).adjusted_score = ScoredItem(c, d).adjusted_score)
                       => i < d

\* a tie at the drop boundary between different original scores: 100 one
\* day late and 90 on time both count 90, and the later one is dropped
C10_Witness ==
    /\ tables["quizzes"].set
    /\ DropsFor("quizzes") = 1
    /\ \E i, d \in 1..Len(ItemsOf("quizzes")) :
           /\ Survives("quizzes", i)
           /\ ~Survives("quizzes", d)
           /\ ItemsOf("quizzes")[i].score # ItemsOf("quizzes")[d].score
           /\ ScoredItem("quizzes", i).adjusted_score = ScoredItem("quizzes", d).adjusted_score

====
